---- MODULE Spec2Model ----
(***************************************************************************)
(* Transmuter: accounting and risk-control core of a multi-asset pegged    *)
(* swap pool.  The sudo dispatcher (sudo.rs), the legacy supply entry      *)
(* point (contract.rs) and the asset group registry (asset_group.rs) are   *)
(* translated from the source; the pool ledger, the swap calculation, the  *)
(* alloyed-asset helpers and the weight limiter are not part of the        *)
(* available source and follow the design document.                        *)
(***************************************************************************)
EXTENDS Integers, Sequences, FiniteSets, TLC

VARIABLES
    pool,       \* persisted TransmuterPool: pooled denom -> balance
    limiters,   \* persisted limiter windows: tracked key -> divisions
    shares,     \* outstanding supply of the alloyed denom (minted - burned)
    now,        \* env.block.time, imposed by the host
    net,        \* history: assets received by the pool minus assets sent out
    seen,       \* history: weights the limiter admitted inside the trailing window
    asset_groups,   \* AssetGroups: label -> AssetGroup
    created,    \* history: per label, the last successful create or remove
    asset_group,    \* an AssetGroup value held outside the registry
    last        \* the Response or Err the host holds, Idle between calls

vars == <<pool, limiters, shares, now, net, seen, asset_groups, created, asset_group, last>>

----------------------------------------------------------------------------
(* Bounds of the model *)

MaxAmount == 2      \* largest amount carried by a request
MaxTotal == 2       \* deposits are accepted while the pooled total stays within it
MaxTime == 2        \* last block time
MaxDenoms == 4      \* longest denom list an AssetGroup value is grown to

----------------------------------------------------------------------------
(* Denominations and request inputs *)

PoolAssetDenoms == <<"axlusdc", "usdt", "whusdc">>

PoolDenoms == {PoolAssetDenoms[i] : i \in 1..Len(PoolAssetDenoms)}

AlloyedDenom == "uusdc"

UnknownDenom == "uosmo"

\* denoms a swap request may name; funds of an execute call may carry any denom
RequestDenoms == PoolDenoms \cup {AlloyedDenom}

FundDenoms == RequestDenoms \cup {UnknownDenom}

\* Coin::amount and the min/max limits are unsigned and may be zero
Amounts == 0..MaxAmount

Limits == 0..MaxAmount

User == "user"

Coin(amount, denom) == [denom |-> denom, amount |-> amount]

Coins == [denom : RequestDenoms, amount : Amounts]

FundCoins == [denom : FundDenoms, amount : Amounts]

----------------------------------------------------------------------------
(* Decimal: exact non-negative fractions in lowest terms *)

RECURSIVE Gcd(_, _)
Gcd(a, b) == IF b = 0 THEN a ELSE Gcd(b, a % b)

Dec(n, d) == LET g == Gcd(n, d) IN [num |-> n \div g, den |-> d \div g]

DecZero == [num |-> 0, den |-> 1]

DecLe(a, b) == a.num * b.den <= b.num * a.den

DecMax(a, b) == IF DecLe(a, b) THEN b ELSE a

DecAbsDiff(a, b) ==
    LET x == a.num * b.den
        y == b.num * a.den
    IN  Dec(IF x >= y THEN x - y ELSE y - x, a.den * b.den)

SwapFees == {DecZero, [num |-> 1, den |-> 2]}

----------------------------------------------------------------------------
(* Results *)

NoError == [error |-> "None"]

NoData == [kind |-> "None"]

Ok(messages, data) == [ok |-> TRUE, err |-> NoError, messages |-> messages, data |-> data]

Err(e) == [ok |-> FALSE, err |-> e, messages |-> <<>>, data |-> NoData]

BankSend(to, coin) == [type |-> "BankMsg::Send", to_address |-> to, amount |-> coin]

MsgBurn(coin) == [type |-> "MsgBurn", amount |-> coin]

MsgMint(to, coin) == [type |-> "MsgMint", mint_to_address |-> to, amount |-> coin]

Storage == [pool |-> pool, limiters |-> limiters, shares |-> shares]

----------------------------------------------------------------------------
(* Pool ledger (TransmuterPool) *)

RECURSIVE SumOver(_, _)
SumOver(f, S) ==
    IF S = {} THEN 0
    ELSE LET d == CHOOSE x \in S : TRUE IN f[d] + SumOver(f, S \ {d})

TotalPoolValue(p) == SumOver(p, PoolDenoms)

None == [some |-> FALSE]

Some(v) == [some |-> TRUE, value |-> v]

\* weights(): absent when nothing is pooled, else balance / total per denom
Weights(p) ==
    LET total == TotalPoolValue(p)
    IN  IF total = 0 THEN None
        ELSE Some([d \in PoolDenoms |-> Dec(p[d], total)])

\* TransmuterPool::supply
PoolSupply(p, coin) ==
    IF coin.denom \notin PoolDenoms
    THEN [ok |-> FALSE, err |-> [error |-> "InvalidPoolAssetDenom", denom |-> coin.denom], pool |-> p]
    ELSE [ok |-> TRUE, err |-> NoError,
          pool |-> [p EXCEPT ![coin.denom] = @ + coin.amount]]

\* the pool side of an exchange: token_in is added, token_out is taken out
PoolExchange(p, token_in, token_out) ==
    IF token_in.denom \notin PoolDenoms
    THEN [ok |-> FALSE, err |-> [error |-> "InvalidTransmuteDenom", denom |-> token_in.denom], pool |-> p]
    ELSE IF token_out.denom \notin PoolDenoms
    THEN [ok |-> FALSE, err |-> [error |-> "InvalidTransmuteDenom", denom |-> token_out.denom], pool |-> p]
    ELSE IF p[token_out.denom] < token_out.amount
    THEN [ok |-> FALSE,
          err |-> [error |-> "InsufficientPoolAsset", required |-> token_out.amount,
                   available |-> p[token_out.denom]],
          pool |-> p]
    ELSE [ok |-> TRUE, err |-> NoError,
          pool |-> [d \in PoolDenoms |->
                      (p[d] + (IF d = token_in.denom THEN token_in.amount ELSE 0))
                        - (IF d = token_out.denom THEN token_out.amount ELSE 0)]]

\* legacy two-asset configuration of TransmuterPool::new(in_denom, out_denom)
TransmuteInDenom == "axlusdc"

TransmuteOutDenom == "whusdc"

\* TransmuterPool::transmute
PoolTransmute(p, in_coin) ==
    IF in_coin.denom # TransmuteInDenom
    THEN [ok |-> FALSE, err |-> [error |-> "InvalidTransmuteDenom", denom |-> in_coin.denom],
          pool |-> p, coin |-> Coin(0, TransmuteOutDenom)]
    ELSE LET out_coin == Coin(in_coin.amount, TransmuteOutDenom)
             x == PoolExchange(p, in_coin, out_coin)
         IN  [ok |-> x.ok, err |-> x.err, pool |-> x.pool, coin |-> out_coin]

----------------------------------------------------------------------------
(* Swap calculation *)

\* the fee is deducted from what the requester receives, rounded down
OutGivenIn(amount, swap_fee) ==
    (amount * (swap_fee.den - swap_fee.num)) \div swap_fee.den

\* the fee is added to what the requester pays, rounded up
InGivenOut(amount, swap_fee) ==
    amount + ((amount * swap_fee.num + swap_fee.den - 1) \div swap_fee.den)

do_calc_out_amt_given_in(p, token_in, token_out_denom, swap_fee) ==
    LET token_out == Coin(OutGivenIn(token_in.amount, swap_fee), token_out_denom)
        x == PoolExchange(p, token_in, token_out)
    IN  [ok |-> x.ok, err |-> x.err, pool |-> x.pool, coin |-> token_out]

do_calc_in_amt_given_out(p, token_out, token_in_denom, swap_fee) ==
    LET token_in == Coin(InGivenOut(token_out.amount, swap_fee), token_in_denom)
        x == PoolExchange(p, token_in, token_out)
    IN  [ok |-> x.ok, err |-> x.err, pool |-> x.pool, coin |-> token_in]

----------------------------------------------------------------------------
(* Weight-based rate limiter *)

\* configured limiters: window_size, division_count and boundary_offset per key
LimiterConfig ==
    [k \in {"axlusdc", "whusdc"} |->
        IF k = "axlusdc"
        THEN [window_size |-> 2, division_count |-> 2,
              boundary_offset |-> [num |-> 1, den |-> 2]]
        ELSE [window_size |-> 1, division_count |-> 1,
              boundary_offset |-> [num |-> 1, den |-> 4]]]

TrackedKeys == DOMAIN LimiterConfig

DivisionSize(cfg) == cfg.window_size \div cfg.division_count

\* a division still counts while it ends after the start of the trailing window
InWindow(cfg, division, t) ==
    division.started_at + DivisionSize(cfg) > t - cfg.window_size

LiveDivisions(cfg, divisions, t) ==
    SelectSeq(divisions, LAMBDA d : InWindow(cfg, d, t))

RECURSIVE WindowMax(_)
WindowMax(divisions) ==
    IF Len(divisions) = 1 THEN divisions[1].value
    ELSE DecMax(divisions[1].value, WindowMax(Tail(divisions)))

\* the check of one key: admitted, or the RateLimitExceeded it raises
CheckLimit(key, divisions, value, t) ==
    LET cfg == LimiterConfig[key]
        live == LiveDivisions(cfg, divisions, t)
    IN  IF live = <<>> THEN NoError
        ELSE LET previous == WindowMax(live)
             IN  IF DecLe(DecAbsDiff(value, previous), cfg.boundary_offset)
                 THEN NoError
                 ELSE [error |-> "RateLimitExceeded", key |-> key, previous |-> previous,
                       attempted |-> value, bound |-> cfg.boundary_offset]

\* the window of one key after recording an observation
UpdateDivisions(key, divisions, value, t) ==
    LET cfg == LimiterConfig[key]
        live == LiveDivisions(cfg, divisions, t)
        n == Len(live)
    IN  IF n > 0 /\ t < live[n].started_at + DivisionSize(cfg)
        THEN [live EXCEPT ![n].value = DecMax(@, value)]
        ELSE Append(live, [started_at |-> t, value |-> value])

\* the first pair, in pool order, whose tracked key is over its bound (0: none)
FirstExceeded(lims, denom_weight_pairs, t) ==
    LET bad == {i \in 1..Len(PoolAssetDenoms) :
                  /\ PoolAssetDenoms[i] \in TrackedKeys
                  /\ CheckLimit(PoolAssetDenoms[i], lims[PoolAssetDenoms[i]],
                                denom_weight_pairs[PoolAssetDenoms[i]], t) # NoError}
    IN  IF bad = {} THEN 0 ELSE CHOOSE i \in bad : \A j \in bad : i <= j

\* a limiter that records each key as it passes, up to the first one over its bound
check_limits_and_update_Partial(lims, denom_weight_pairs, t) ==
    LET i == FirstExceeded(lims, denom_weight_pairs, t)
        n == IF i = 0 THEN Len(PoolAssetDenoms) + 1 ELSE i
        passed == {PoolAssetDenoms[j] : j \in 1..(n - 1)} \cap TrackedKeys
        updated == [k \in TrackedKeys |->
                      IF k \in passed
                      THEN UpdateDivisions(k, lims[k], denom_weight_pairs[k], t)
                      ELSE lims[k]]
    IN  IF i # 0
        THEN [ok |-> FALSE,
              err |-> CheckLimit(PoolAssetDenoms[i], lims[PoolAssetDenoms[i]],
                                 denom_weight_pairs[PoolAssetDenoms[i]], t),
              limiters |-> updated]
        ELSE [ok |-> TRUE, err |-> NoError, limiters |-> updated]

check_limits_and_update(lims, denom_weight_pairs, t) ==
    LET i == FirstExceeded(lims, denom_weight_pairs, t)
    IN  IF i # 0
        THEN [ok |-> FALSE,
              err |-> CheckLimit(PoolAssetDenoms[i], lims[PoolAssetDenoms[i]],
                                 denom_weight_pairs[PoolAssetDenoms[i]], t),
              limiters |-> lims]
        ELSE [ok |-> TRUE, err |-> NoError,
              limiters |-> [k \in TrackedKeys |->
                              IF k \in DOMAIN denom_weight_pairs
                              THEN UpdateDivisions(k, lims[k], denom_weight_pairs[k], t)
                              ELSE lims[k]]]

----------------------------------------------------------------------------
(* Alloyed-asset helpers of the Transmuter *)

Outcome(st, res, route) == [st |-> st, res |-> res, route |-> route]

\* exit the pool: burn the alloyed shares sent as funds, release tokens_out
swap_alloyed_asset_for_tokens(st, sender, funds, tokens_out) ==
    LET token_in == funds[1]
        token_out == tokens_out[1]
    IN  IF token_out.denom \notin PoolDenoms
        THEN Outcome(st, Err([error |-> "InvalidPoolAssetDenom", denom |-> token_out.denom]),
                     "alloyed_in")
        ELSE IF st.pool[token_out.denom] < token_out.amount
        THEN Outcome(st, Err([error |-> "InsufficientPoolAsset",
                              required |-> token_out.amount,
                              available |-> st.pool[token_out.denom]]),
                     "alloyed_in")
        ELSE Outcome([st EXCEPT !.pool[token_out.denom] = @ - token_out.amount,
                                !.shares = @ - token_in.amount],
                     Ok(<<MsgBurn(token_in), BankSend(sender, token_out)>>, NoData),
                     "alloyed_in")

\* join the pool: take the funds in, mint the same amount of alloyed shares
swap_tokens_for_alloyed_asset(st, sender, funds) ==
    LET token_in == funds[1]
        joined == PoolSupply(st.pool, token_in)
    IN  IF ~joined.ok
        THEN Outcome(st, Err(joined.err), "alloyed_out")
        ELSE Outcome([st EXCEPT !.pool = joined.pool, !.shares = @ + token_in.amount],
                     Ok(<<MsgMint(sender, Coin(token_in.amount, AlloyedDenom))>>, NoData),
                     "alloyed_out")

SetData(out, data) ==
    IF out.res.ok THEN [out EXCEPT !.res.data = data] ELSE out

----------------------------------------------------------------------------
(* SudoMsg::dispatch *)

SwapExactAmountInResponseData(token_out_amount) ==
    [kind |-> "SwapExactAmountInResponseData", token_out_amount |-> token_out_amount]

SwapExactAmountOutResponseData(token_in_amount) ==
    [kind |-> "SwapExactAmountOutResponseData", token_in_amount |-> token_in_amount]

\* a dispatcher that calls the limiters and drops the error they return
CheckAndUpdateLimiters_ErrorDropped(st, p, t) ==
    LET denom_weight_pairs == Weights(p)
    IN  IF denom_weight_pairs.some
        THEN [ok |-> TRUE, err |-> NoError,
              limiters |-> check_limits_and_update(st.limiters, denom_weight_pairs.value,
                                                   t).limiters]
        ELSE [ok |-> TRUE, err |-> NoError, limiters |-> st.limiters]

\* a dispatcher that hands an empty pool to the limiters with every weight at zero
CheckAndUpdateLimiters_ZeroWeights(st, p, t) ==
    LET denom_weight_pairs == Weights(p)
    IN  IF denom_weight_pairs.some
        THEN check_limits_and_update(st.limiters, denom_weight_pairs.value, t)
        ELSE check_limits_and_update(st.limiters, [d \in PoolDenoms |-> DecZero], t)

\* check and update limiters only if pool assets are not zero
CheckAndUpdateLimiters(st, p, t) ==
    LET denom_weight_pairs == Weights(p)
    IN  IF denom_weight_pairs.some
        THEN check_limits_and_update(st.limiters, denom_weight_pairs.value, t)
        ELSE [ok |-> TRUE, err |-> NoError, limiters |-> st.limiters]

\* the asset route saving the pool before the limiters are checked
SwapInAssetRoute_SavedEarly(st, t, sender, token_in, token_out, swap_fee) ==
    LET calc == do_calc_out_amt_given_in(st.pool, token_in, token_out.denom, swap_fee)
        actual_token_out == calc.coin
    IN  IF ~calc.ok THEN Outcome(st, Err(calc.err), "asset")
        ELSE IF token_out # actual_token_out
        THEN Outcome(st, Err([error |-> "InvalidTokenOutAmount",
                              expected |-> token_out.amount,
                              actual |-> actual_token_out.amount]),
                     "asset")
        ELSE LET lim == CheckAndUpdateLimiters(st, calc.pool, t)
             IN  IF ~lim.ok
                 THEN Outcome([st EXCEPT !.limiters = lim.limiters, !.pool = calc.pool],
                              Err(lim.err), "asset")
                 ELSE Outcome([st EXCEPT !.limiters = lim.limiters, !.pool = calc.pool],
                              Ok(<<BankSend(sender, token_out)>>,
                                 SwapExactAmountInResponseData(token_out.amount)),
                              "asset")

\* the asset route answering Ok without saving the pool
SwapInAssetRoute_PoolNotSaved(st, t, sender, token_in, token_out, swap_fee) ==
    LET calc == do_calc_out_amt_given_in(st.pool, token_in, token_out.denom, swap_fee)
        actual_token_out == calc.coin
    IN  IF ~calc.ok THEN Outcome(st, Err(calc.err), "asset")
        ELSE IF token_out # actual_token_out
        THEN Outcome(st, Err([error |-> "InvalidTokenOutAmount",
                              expected |-> token_out.amount,
                              actual |-> actual_token_out.amount]),
                     "asset")
        ELSE LET lim == CheckAndUpdateLimiters(st, calc.pool, t)
             IN  IF ~lim.ok
                 THEN Outcome([st EXCEPT !.limiters = lim.limiters], Err(lim.err), "asset")
                 ELSE Outcome([st EXCEPT !.limiters = lim.limiters],
                              Ok(<<BankSend(sender, token_out)>>,
                                 SwapExactAmountInResponseData(token_out.amount)),
                              "asset")

\* the asset route saving a pool credited with token_in but not debited of the
\* token_out it sends
SwapInAssetRoute_TokenOutNotDebited(st, t, sender, token_in, token_out, swap_fee) ==
    LET calc == do_calc_out_amt_given_in(st.pool, token_in, token_out.denom, swap_fee)
        actual_token_out == calc.coin
    IN  IF ~calc.ok THEN Outcome(st, Err(calc.err), "asset")
        ELSE IF token_out # actual_token_out
        THEN Outcome(st, Err([error |-> "InvalidTokenOutAmount",
                              expected |-> token_out.amount,
                              actual |-> actual_token_out.amount]),
                     "asset")
        ELSE LET lim == CheckAndUpdateLimiters(st, calc.pool, t)
             IN  IF ~lim.ok
                 THEN Outcome([st EXCEPT !.limiters = lim.limiters], Err(lim.err), "asset")
                 ELSE Outcome([st EXCEPT !.limiters = lim.limiters,
                                         !.pool = [calc.pool EXCEPT ![token_out.denom] =
                                                     @ + token_out.amount]],
                              Ok(<<BankSend(sender, token_out)>>,
                                 SwapExactAmountInResponseData(token_out.amount)),
                              "asset")

\* SwapExactAmountIn, both sides pooled assets
SwapInAssetRoute(st, t, sender, token_in, token_out, swap_fee) ==
    LET calc == do_calc_out_amt_given_in(st.pool, token_in, token_out.denom, swap_fee)
        actual_token_out == calc.coin
    IN  IF ~calc.ok THEN Outcome(st, Err(calc.err), "asset")
        ELSE IF token_out # actual_token_out
        THEN Outcome(st, Err([error |-> "InvalidTokenOutAmount",
                              expected |-> token_out.amount,
                              actual |-> actual_token_out.amount]),
                     "asset")
        ELSE LET lim == CheckAndUpdateLimiters(st, calc.pool, t)
             IN  IF ~lim.ok
                 THEN Outcome([st EXCEPT !.limiters = lim.limiters], Err(lim.err), "asset")
                 ELSE Outcome([st EXCEPT !.limiters = lim.limiters, !.pool = calc.pool],
                              Ok(<<BankSend(sender, token_out)>>,
                                 SwapExactAmountInResponseData(token_out.amount)),
                              "asset")

\* the min-out check with the two fields of its error exchanged
EnsureMinOut_FieldsSwapped(token_out, token_out_min_amount) ==
    IF token_out.amount >= token_out_min_amount THEN NoError
    ELSE [error |-> "InsufficientTokenOut", required |-> token_out.amount,
          available |-> token_out_min_amount]

\* ensure token_out amount is greater than or equal to token_out_min_amount
EnsureMinOut(token_out, token_out_min_amount) ==
    IF token_out.amount >= token_out_min_amount THEN NoError
    ELSE [error |-> "InsufficientTokenOut", required |-> token_out_min_amount,
          available |-> token_out.amount]

\* a dispatcher that hands token_out, not the alloyed token_in, over as the funds
\* to burn
SwapExactAmountIn_BurnsTokenOut(st, t, sender, token_in, token_out_denom, token_out_min_amount, swap_fee) ==
    LET token_out == Coin(token_in.amount, token_out_denom)
    IN  IF EnsureMinOut(token_out, token_out_min_amount) # NoError
        THEN Outcome(st, Err(EnsureMinOut(token_out, token_out_min_amount)), "none")
        ELSE IF token_in.denom = AlloyedDenom
        THEN SetData(swap_alloyed_asset_for_tokens(st, sender, <<token_out>>, <<token_out>>),
                     SwapExactAmountInResponseData(token_out.amount))
        ELSE IF token_out.denom = AlloyedDenom
        THEN SetData(swap_tokens_for_alloyed_asset(st, sender, <<token_in>>),
                     SwapExactAmountInResponseData(token_out.amount))
        ELSE SwapInAssetRoute(st, t, sender, token_in, token_out, swap_fee)

\* a dispatcher that tests the output denom before the input denom
SwapExactAmountIn_OutTestedFirst(st, t, sender, token_in, token_out_denom, token_out_min_amount, swap_fee) ==
    LET token_out == Coin(token_in.amount, token_out_denom)
    IN  IF EnsureMinOut(token_out, token_out_min_amount) # NoError
        THEN Outcome(st, Err(EnsureMinOut(token_out, token_out_min_amount)), "none")
        ELSE IF token_out.denom = AlloyedDenom
        THEN SetData(swap_tokens_for_alloyed_asset(st, sender, <<token_in>>),
                     SwapExactAmountInResponseData(token_out.amount))
        ELSE IF token_in.denom = AlloyedDenom
        THEN SetData(swap_alloyed_asset_for_tokens(st, sender, <<token_in>>, <<token_out>>),
                     SwapExactAmountInResponseData(token_out.amount))
        ELSE SwapInAssetRoute(st, t, sender, token_in, token_out, swap_fee)

SwapExactAmountIn(st, t, sender, token_in, token_out_denom, token_out_min_amount, swap_fee) ==
    LET token_out == Coin(token_in.amount, token_out_denom)
    IN  IF EnsureMinOut(token_out, token_out_min_amount) # NoError
        THEN Outcome(st, Err(EnsureMinOut(token_out, token_out_min_amount)), "none")
        ELSE IF token_in.denom = AlloyedDenom
        THEN SetData(swap_alloyed_asset_for_tokens(st, sender, <<token_in>>, <<token_out>>),
                     SwapExactAmountInResponseData(token_out.amount))
        ELSE IF token_out.denom = AlloyedDenom
        THEN SetData(swap_tokens_for_alloyed_asset(st, sender, <<token_in>>),
                     SwapExactAmountInResponseData(token_out.amount))
        ELSE SwapInAssetRoute(st, t, sender, token_in, token_out, swap_fee)

\* the asset route answering Ok without saving the pool
SwapOutAssetRoute_PoolNotSaved(st, t, sender, token_in, token_out, swap_fee) ==
    LET calc == do_calc_in_amt_given_out(st.pool, token_out, token_in.denom, swap_fee)
        actual_token_in == calc.coin
    IN  IF ~calc.ok THEN Outcome(st, Err(calc.err), "asset")
        ELSE IF token_in # actual_token_in
        THEN Outcome(st, Err([error |-> "InvalidTokenInAmount",
                              expected |-> token_in.amount,
                              actual |-> actual_token_in.amount]),
                     "asset")
        ELSE LET lim == CheckAndUpdateLimiters(st, calc.pool, t)
             IN  IF ~lim.ok
                 THEN Outcome([st EXCEPT !.limiters = lim.limiters], Err(lim.err), "asset")
                 ELSE Outcome([st EXCEPT !.limiters = lim.limiters],
                              Ok(<<BankSend(sender, token_out)>>,
                                 SwapExactAmountOutResponseData(actual_token_in.amount)),
                              "asset")

\* the asset route sending the coin it was paid instead of the coin requested
SwapOutAssetRoute_SendsTokenIn(st, t, sender, token_in, token_out, swap_fee) ==
    LET calc == do_calc_in_amt_given_out(st.pool, token_out, token_in.denom, swap_fee)
        actual_token_in == calc.coin
    IN  IF ~calc.ok THEN Outcome(st, Err(calc.err), "asset")
        ELSE IF token_in # actual_token_in
        THEN Outcome(st, Err([error |-> "InvalidTokenInAmount",
                              expected |-> token_in.amount,
                              actual |-> actual_token_in.amount]),
                     "asset")
        ELSE LET lim == CheckAndUpdateLimiters(st, calc.pool, t)
             IN  IF ~lim.ok
                 THEN Outcome([st EXCEPT !.limiters = lim.limiters], Err(lim.err), "asset")
                 ELSE Outcome([st EXCEPT !.limiters = lim.limiters, !.pool = calc.pool],
                              Ok(<<BankSend(sender, token_in)>>,
                                 SwapExactAmountOutResponseData(actual_token_in.amount)),
                              "asset")

\* the exact-out asset route saving the pool without consulting the limiters
SwapOutAssetRoute_LimiterSkipped(st, t, sender, token_in, token_out, swap_fee) ==
    LET calc == do_calc_in_amt_given_out(st.pool, token_out, token_in.denom, swap_fee)
        actual_token_in == calc.coin
    IN  IF ~calc.ok THEN Outcome(st, Err(calc.err), "asset")
        ELSE IF token_in # actual_token_in
        THEN Outcome(st, Err([error |-> "InvalidTokenInAmount",
                              expected |-> token_in.amount,
                              actual |-> actual_token_in.amount]),
                     "asset")
        ELSE Outcome([st EXCEPT !.pool = calc.pool],
                     Ok(<<BankSend(sender, token_out)>>,
                        SwapExactAmountOutResponseData(actual_token_in.amount)),
                     "asset")

\* SwapExactAmountOut, both sides pooled assets
SwapOutAssetRoute(st, t, sender, token_in, token_out, swap_fee) ==
    LET calc == do_calc_in_amt_given_out(st.pool, token_out, token_in.denom, swap_fee)
        actual_token_in == calc.coin
    IN  IF ~calc.ok THEN Outcome(st, Err(calc.err), "asset")
        ELSE IF token_in # actual_token_in
        THEN Outcome(st, Err([error |-> "InvalidTokenInAmount",
                              expected |-> token_in.amount,
                              actual |-> actual_token_in.amount]),
                     "asset")
        ELSE LET lim == CheckAndUpdateLimiters(st, calc.pool, t)
             IN  IF ~lim.ok
                 THEN Outcome([st EXCEPT !.limiters = lim.limiters], Err(lim.err), "asset")
                 ELSE Outcome([st EXCEPT !.limiters = lim.limiters, !.pool = calc.pool],
                              Ok(<<BankSend(sender, token_out)>>,
                                 SwapExactAmountOutResponseData(actual_token_in.amount)),
                              "asset")

\* the max-in check letting through a request one unit over the limit
EnsureMaxIn_OffByOne(token_in, token_in_max_amount) ==
    IF token_in.amount <= token_in_max_amount + 1 THEN NoError
    ELSE [error |-> "ExcessiveRequiredTokenIn", limit |-> token_in_max_amount,
          required |-> token_in.amount]

\* ensure token_in amount is less than or equal to token_in_max_amount
EnsureMaxIn(token_in, token_in_max_amount) ==
    IF token_in.amount <= token_in_max_amount THEN NoError
    ELSE [error |-> "ExcessiveRequiredTokenIn", limit |-> token_in_max_amount,
          required |-> token_in.amount]

\* a dispatcher that hands token_out, not the pooled token_in, over as the funds
\* to join the pool with
SwapExactAmountOut_JoinsWithTokenOut(st, t, sender, token_in_denom, token_in_max_amount, token_out, swap_fee) ==
    LET token_in == Coin(token_out.amount, token_in_denom)
    IN  IF EnsureMaxIn(token_in, token_in_max_amount) # NoError
        THEN Outcome(st, Err(EnsureMaxIn(token_in, token_in_max_amount)), "none")
        ELSE IF token_in.denom = AlloyedDenom
        THEN SetData(swap_alloyed_asset_for_tokens(st, sender, <<token_in>>, <<token_out>>),
                     SwapExactAmountOutResponseData(token_in.amount))
        ELSE IF token_out.denom = AlloyedDenom
        THEN SetData(swap_tokens_for_alloyed_asset(st, sender, <<token_out>>),
                     SwapExactAmountOutResponseData(token_in.amount))
        ELSE SwapOutAssetRoute(st, t, sender, token_in, token_out, swap_fee)

SwapExactAmountOut(st, t, sender, token_in_denom, token_in_max_amount, token_out, swap_fee) ==
    LET token_in == Coin(token_out.amount, token_in_denom)
    IN  IF EnsureMaxIn(token_in, token_in_max_amount) # NoError
        THEN Outcome(st, Err(EnsureMaxIn(token_in, token_in_max_amount)), "none")
        ELSE IF token_in.denom = AlloyedDenom
        THEN SetData(swap_alloyed_asset_for_tokens(st, sender, <<token_in>>, <<token_out>>),
                     SwapExactAmountOutResponseData(token_in.amount))
        ELSE IF token_out.denom = AlloyedDenom
        THEN SetData(swap_tokens_for_alloyed_asset(st, sender, <<token_in>>),
                     SwapExactAmountOutResponseData(token_in.amount))
        ELSE SwapOutAssetRoute(st, t, sender, token_in, token_out, swap_fee)

----------------------------------------------------------------------------
(* Transmuter::supply and Transmuter::transmute (contract.rs) *)

\* supply that answers Ok without storing the updated pool
TransmuterSupply_NotStored(st, funds) ==
    IF Len(funds) # 1
    THEN Outcome(st, Err([error |-> "Std",
                          msg |-> "supply requires funds to have exactly one denom"]),
                 "none")
    ELSE LET updated == PoolSupply(st.pool, funds[1])
         IN  IF ~updated.ok THEN Outcome(st, Err(updated.err), "none")
             ELSE Outcome(st, Ok(<<>>, NoData), "none")

\* supply that takes the first coin of the funds whatever their length
TransmuterSupply_FirstCoinOnly(st, funds) ==
    IF Len(funds) = 0
    THEN Outcome(st, Err([error |-> "Std",
                          msg |-> "supply requires funds to have exactly one denom"]),
                 "none")
    ELSE LET updated == PoolSupply(st.pool, funds[1])
         IN  IF ~updated.ok THEN Outcome(st, Err(updated.err), "none")
             ELSE Outcome([st EXCEPT !.pool = updated.pool], Ok(<<>>, NoData), "none")

TransmuterSupply(st, funds) ==
    IF Len(funds) # 1
    THEN Outcome(st, Err([error |-> "Std",
                          msg |-> "supply requires funds to have exactly one denom"]),
                 "none")
    ELSE LET updated == PoolSupply(st.pool, funds[1])
         IN  IF ~updated.ok THEN Outcome(st, Err(updated.err), "none")
             ELSE Outcome([st EXCEPT !.pool = updated.pool], Ok(<<>>, NoData), "none")

\* transmute going on to send the coin when the pool refused the exchange
TransmuterTransmute_ErrorIgnored(st, sender, funds) ==
    IF Len(funds) # 1
    THEN Outcome(st, Err([error |-> "SingleCoinExpected"]), "none")
    ELSE LET in_coin == funds[1]
             x == PoolTransmute(st.pool, in_coin)
         IN  Outcome([st EXCEPT !.pool = x.pool],
                     Ok(<<BankSend(sender, x.coin)>>, NoData), "none")

\* transmute sending back the coin it was paid instead of the coin it took out
TransmuterTransmute_SendsInCoin(st, sender, funds) ==
    IF Len(funds) # 1
    THEN Outcome(st, Err([error |-> "SingleCoinExpected"]), "none")
    ELSE LET in_coin == funds[1]
             x == PoolTransmute(st.pool, in_coin)
         IN  IF ~x.ok THEN Outcome(st, Err(x.err), "none")
             ELSE Outcome([st EXCEPT !.pool = x.pool],
                          Ok(<<BankSend(sender, in_coin)>>, NoData), "none")

TransmuterTransmute(st, sender, funds) ==
    IF Len(funds) # 1
    THEN Outcome(st, Err([error |-> "SingleCoinExpected"]), "none")
    ELSE LET in_coin == funds[1]
             x == PoolTransmute(st.pool, in_coin)
         IN  IF ~x.ok THEN Outcome(st, Err(x.err), "none")
             ELSE Outcome([st EXCEPT !.pool = x.pool],
                          Ok(<<BankSend(sender, x.coin)>>, NoData), "none")

----------------------------------------------------------------------------
(* Asset group registry (asset_group.rs) *)

Labels == {"group1", "group2"}

\* denom lists given to create_asset_group: empty, repeated and unordered ones
DenomLists == {<<>>, <<"axlusdc">>, <<"axlusdc", "axlusdc">>, <<"usdt", "axlusdc">>}

\* AssetGroup::new
AssetGroupNew(denoms) == [denoms |-> denoms, is_corrupted |-> FALSE]

\* Corruptable for AssetGroup
is_corrupted(group) == group.is_corrupted

\* mark_as_corrupted flipping the flag instead of setting it
mark_as_corrupted_Toggles(group) == [group EXCEPT !.is_corrupted = ~@]

mark_as_corrupted(group) == [group EXCEPT !.is_corrupted = TRUE]

unmark_as_corrupted(group) == [group EXCEPT !.is_corrupted = FALSE]

\* Vec::contains
Contains(list, d) == \E i \in 1..Len(list) : list[i] = d

\* add_denoms leaving out the denoms the group already lists
add_denoms_SkipsPresent(g, denoms) ==
    [g EXCEPT !.denoms = @ \o SelectSeq(denoms, LAMBDA d : ~Contains(g.denoms, d))]

\* AssetGroup::add_denoms: Vec::extend
add_denoms(g, denoms) == [g EXCEPT !.denoms = @ \o denoms]

RECURSIVE RemoveFirst(_, _)
RemoveFirst(list, d) ==
    IF list = <<>> THEN <<>>
    ELSE IF Head(list) = d THEN Tail(list)
    ELSE <<Head(list)>> \o RemoveFirst(Tail(list), d)

RECURSIVE RemoveEachOnce(_, _)
RemoveEachOnce(list, denoms) ==
    IF denoms = <<>> THEN list
    ELSE RemoveEachOnce(RemoveFirst(list, Head(denoms)), Tail(denoms))

\* remove_denoms taking out the first occurrence of each named denom only
remove_denoms_FirstOccurrence(g, denoms) ==
    [g EXCEPT !.denoms = RemoveEachOnce(@, denoms)]

\* remove_denoms with the predicate of retain inverted: the named denoms stay
remove_denoms_KeepsNamed(g, denoms) ==
    [g EXCEPT !.denoms = SelectSeq(@, LAMBDA d : Contains(denoms, d))]

\* AssetGroup::remove_denoms: Vec::retain
remove_denoms(g, denoms) ==
    [g EXCEPT !.denoms = SelectSeq(@, LAMBDA d : ~Contains(denoms, d))]

\* AssetGroups::new: the empty BTreeMap
AssetGroupsNew == [label \in {} |-> AssetGroupNew(<<>>)]

has(groups, label) == label \in DOMAIN groups

AssetGroupNotFound(label) == [error |-> "AssetGroupNotFound", label |-> label]

AssetGroupAlreadyExists(label) == [error |-> "AssetGroupAlreadyExists", label |-> label]

\* mark_corrupted_asset_group marking every group of the registry
mark_corrupted_asset_group_MarksAll(groups, label) ==
    IF label \notin DOMAIN groups
    THEN [ok |-> FALSE, err |-> AssetGroupNotFound(label), groups |-> groups]
    ELSE [ok |-> TRUE, err |-> NoError,
          groups |-> [l \in DOMAIN groups |-> mark_as_corrupted(groups[l])]]

mark_corrupted_asset_group(groups, label) ==
    IF label \notin DOMAIN groups
    THEN [ok |-> FALSE, err |-> AssetGroupNotFound(label), groups |-> groups]
    ELSE [ok |-> TRUE, err |-> NoError,
          groups |-> [groups EXCEPT ![label] = mark_as_corrupted(@)]]

unmark_corrupted_asset_group(groups, label) ==
    IF label \notin DOMAIN groups
    THEN [ok |-> FALSE, err |-> AssetGroupNotFound(label), groups |-> groups]
    ELSE [ok |-> TRUE, err |-> NoError,
          groups |-> [groups EXCEPT ![label] = unmark_as_corrupted(@)]]

\* create_asset_group inserting over a label that is taken
create_asset_group_Overwrites(groups, label, denoms) ==
    [ok |-> TRUE, err |-> NoError,
     groups |-> [l \in DOMAIN groups \cup {label} |->
                   IF l = label THEN AssetGroupNew(denoms) ELSE groups[l]]]

create_asset_group(groups, label, denoms) ==
    IF label \in DOMAIN groups
    THEN [ok |-> FALSE, err |-> AssetGroupAlreadyExists(label), groups |-> groups]
    ELSE [ok |-> TRUE, err |-> NoError,
          groups |-> [l \in DOMAIN groups \cup {label} |->
                        IF l = label THEN AssetGroupNew(denoms) ELSE groups[l]]]

\* remove_asset_group answering Ok for a present label without deleting it
remove_asset_group_KeepsEntry(groups, label) ==
    IF label \notin DOMAIN groups
    THEN [ok |-> FALSE, err |-> AssetGroupNotFound(label), groups |-> groups]
    ELSE [ok |-> TRUE, err |-> NoError, groups |-> groups]

\* remove_asset_group emptying the registry
remove_asset_group_Clears(groups, label) ==
    IF label \notin DOMAIN groups
    THEN [ok |-> FALSE, err |-> AssetGroupNotFound(label), groups |-> groups]
    ELSE [ok |-> TRUE, err |-> NoError, groups |-> AssetGroupsNew]

remove_asset_group(groups, label) ==
    IF label \notin DOMAIN groups
    THEN [ok |-> FALSE, err |-> AssetGroupNotFound(label), groups |-> groups]
    ELSE [ok |-> TRUE, err |-> NoError,
          groups |-> [l \in DOMAIN groups \ {label} |-> groups[l]]]

----------------------------------------------------------------------------
(* The contract as a state machine: one action per entry point *)

Idle == [method |-> "idle"]

\* what the host holds after a call: the entry point, the route the call took
\* and the Response or Err it returned
Call(method, out) == [method |-> method, route |-> out.route, res |-> out.res]

RECURSIVE Received(_)
Received(funds) ==
    IF funds = <<>> THEN 0
    ELSE (IF Head(funds).denom \in PoolDenoms THEN Head(funds).amount ELSE 0)
           + Received(Tail(funds))

RECURSIVE Sent(_)
Sent(messages) ==
    IF messages = <<>> THEN 0
    ELSE (IF Head(messages).type = "BankMsg::Send" THEN Head(messages).amount.amount ELSE 0)
           + Sent(Tail(messages))

\* funds attached to a call exist: alloyed shares sent were minted before
FundsExist(funds) ==
    \A i \in 1..Len(funds) : funds[i].denom = AlloyedDenom => funds[i].amount <= shares

\* the observations admitted for each tracked key that lie inside the window
\* ending now, once the weights of pool p have been admitted as well; the
\* history is kept only by the specification that starts with it switched on
Observe(p) ==
    LET w == Weights(p)
    IN  IF ~seen.on \/ ~w.some THEN seen
        ELSE [on |-> TRUE,
              obs |-> [k \in TrackedKeys |->
                         {o \in seen.obs[k] : now - o.time < LimiterConfig[k].window_size}
                           \cup {[time |-> now, value |-> w.value[k]]}],
              increasing |-> seen.increasing /\ seen.latest < now,
              latest |-> now]

\* the host runs one call at a time; storage keeps what the call wrote
Commit(out, funds, call) ==
    /\ last = Idle
    /\ TotalPoolValue(out.st.pool) <= MaxTotal
    /\ pool' = out.st.pool
    /\ limiters' = out.st.limiters
    /\ shares' = out.st.shares
    /\ net' = IF out.res.ok THEN net + Received(funds) - Sent(out.res.messages) ELSE net
    /\ seen' = IF out.res.ok /\ out.route = "asset" THEN Observe(out.st.pool) ELSE seen
    /\ last' = call
    /\ UNCHANGED <<now, asset_groups, created, asset_group>>

InitStorage ==
    /\ pool = [d \in PoolDenoms |-> 0]
    /\ limiters = [k \in TrackedKeys |-> <<>>]
    /\ shares = 0
    /\ now = 0
    /\ net = 0
    /\ asset_groups = AssetGroupsNew
    /\ created = [label \in Labels |-> [op |-> "none", corrupted |-> FALSE, denoms |-> <<>>]]
    /\ asset_group = AssetGroupNew(<<>>)
    /\ last = Idle

Init == InitStorage /\ seen = [on |-> FALSE]

InitObserved ==
    /\ InitStorage
    /\ seen = [on |-> TRUE, obs |-> [k \in TrackedKeys |-> {}],
               increasing |-> TRUE, latest |-> -1]

SudoSwapExactAmountIn ==
    \E token_in \in Coins, token_out_denom \in RequestDenoms,
       token_out_min_amount \in Limits, swap_fee \in SwapFees :
        /\ FundsExist(<<token_in>>)
        /\ LET out == SwapExactAmountIn(Storage, now, User, token_in, token_out_denom,
                                        token_out_min_amount, swap_fee)
           IN  Commit(out, <<token_in>>, Call("swap_exact_amount_in", out))

SudoSwapExactAmountOut ==
    \E token_out \in Coins, token_in_denom \in RequestDenoms,
       token_in_max_amount \in Limits, swap_fee \in SwapFees :
        /\ FundsExist(<<Coin(token_out.amount, token_in_denom)>>)
        /\ LET out == SwapExactAmountOut(Storage, now, User, token_in_denom,
                                         token_in_max_amount, token_out, swap_fee)
           IN  Commit(out, <<Coin(token_out.amount, token_in_denom)>>,
                      Call("swap_exact_amount_out", out))

FundsChoices ==
    {<<>>} \cup {<<c>> : c \in FundCoins}
           \cup {<<Coin(1, "axlusdc"), Coin(1, d)>> : d \in {"axlusdc", "whusdc"}}

ExecSupply ==
    \E funds \in FundsChoices :
        /\ FundsExist(funds)
        /\ LET out == TransmuterSupply(Storage, funds)
           IN  Commit(out, funds, Call("supply", out))

ExecTransmute ==
    \E funds \in FundsChoices :
        /\ FundsExist(funds)
        /\ LET out == TransmuterTransmute(Storage, User, funds)
           IN  Commit(out, funds, Call("transmute", out))

\* what the host holds after a call on the registry
RegistryCall(method, label, r) ==
    [method |-> method, route |-> "none", label |-> label,
     res |-> IF r.ok THEN Ok(<<>>, NoData) ELSE Err(r.err)]

PoolUnchanged == UNCHANGED <<pool, limiters, shares, now, net, seen, asset_group>>

CreateAssetGroupCall(label, denoms) ==
    LET r == create_asset_group(asset_groups, label, denoms)
    IN  /\ last = Idle
        /\ asset_groups' = r.groups
        /\ created' = IF r.ok THEN [created EXCEPT ![label].op = "create"] ELSE created
        /\ last' = RegistryCall("create_asset_group", label, r)
        /\ PoolUnchanged

\* the history keeps the flag and the denoms of the group that was removed
RemoveAssetGroupCall(label) ==
    LET r == remove_asset_group(asset_groups, label)
    IN  /\ last = Idle
        /\ asset_groups' = r.groups
        /\ created' = IF r.ok
                      THEN [created EXCEPT ![label] =
                              [op |-> "remove",
                               corrupted |-> is_corrupted(asset_groups[label]),
                               denoms |-> asset_groups[label].denoms]]
                      ELSE created
        /\ last' = RegistryCall("remove_asset_group", label, r)
        /\ PoolUnchanged

MarkCorruptedAssetGroupCall(label) ==
    LET r == mark_corrupted_asset_group(asset_groups, label)
    IN  /\ last = Idle
        /\ asset_groups' = r.groups
        /\ last' = RegistryCall("mark_corrupted_asset_group", label, r)
        /\ UNCHANGED created
        /\ PoolUnchanged

UnmarkCorruptedAssetGroupCall(label) ==
    LET r == unmark_corrupted_asset_group(asset_groups, label)
    IN  /\ last = Idle
        /\ asset_groups' = r.groups
        /\ last' = RegistryCall("unmark_corrupted_asset_group", label, r)
        /\ UNCHANGED created
        /\ PoolUnchanged

CreateAssetGroup ==
    \E label \in Labels, denoms \in DenomLists : CreateAssetGroupCall(label, denoms)

RemoveAssetGroup == \E label \in Labels : RemoveAssetGroupCall(label)

MarkCorruptedAssetGroup == \E label \in Labels : MarkCorruptedAssetGroupCall(label)

UnmarkCorruptedAssetGroup == \E label \in Labels : UnmarkCorruptedAssetGroupCall(label)

\* denom lists handed to add_denoms and remove_denoms
GroupDenoms == {"denom1", "denom2", "denom3"}

DenomArgs ==
    {<<>>} \cup {<<d>> : d \in GroupDenoms} \cup {<<d, e>> : d, e \in GroupDenoms}

\* what the caller holds after a call on its AssetGroup value: the method, its
\* argument and the value the method was called on
GroupCall(method, denoms) ==
    [method |-> method, route |-> "none", denoms |-> denoms, before |-> asset_group,
     res |-> Ok(<<>>, NoData)]

RegistryUnchanged == UNCHANGED <<pool, limiters, shares, now, net, seen, asset_groups, created>>

NewAssetGroup ==
    \E denoms \in DenomArgs :
        /\ last = Idle
        /\ asset_group' = AssetGroupNew(denoms)
        /\ last' = GroupCall("new", denoms)
        /\ RegistryUnchanged

AddDenoms ==
    \E denoms \in DenomArgs :
        /\ last = Idle
        /\ Len(asset_group.denoms) + Len(denoms) <= MaxDenoms
        /\ asset_group' = add_denoms(asset_group, denoms)
        /\ last' = GroupCall("add_denoms", denoms)
        /\ RegistryUnchanged

RemoveDenoms ==
    \E denoms \in DenomArgs :
        /\ last = Idle
        /\ asset_group' = remove_denoms(asset_group, denoms)
        /\ last' = GroupCall("remove_denoms", denoms)
        /\ RegistryUnchanged

MarkAsCorrupted ==
    /\ last = Idle
    /\ asset_group' = mark_as_corrupted(asset_group)
    /\ last' = GroupCall("mark_as_corrupted", <<>>)
    /\ RegistryUnchanged

UnmarkAsCorrupted ==
    /\ last = Idle
    /\ asset_group' = unmark_as_corrupted(asset_group)
    /\ last' = GroupCall("unmark_as_corrupted", <<>>)
    /\ RegistryUnchanged

\* the host takes the Response (or the Err) and is ready for the next call
Respond ==
    /\ last # Idle
    /\ last' = Idle
    /\ UNCHANGED <<pool, limiters, shares, now, net, seen, asset_groups, created, asset_group>>

\* the host moves to a later block
AdvanceTime ==
    /\ last = Idle
    /\ now < MaxTime
    /\ now' = now + 1
    /\ UNCHANGED <<pool, limiters, shares, net, seen, asset_groups, created, asset_group, last>>

Next ==
    \/ SudoSwapExactAmountIn
    \/ SudoSwapExactAmountOut
    \/ ExecSupply
    \/ ExecTransmute
    \/ Respond
    \/ AdvanceTime

Spec == Init /\ [][Next]_vars

\* the same machine, keeping the history of admitted observations
SpecObserved == InitObserved /\ [][Next]_vars

\* the pool entered, left and rebalanced through the sudo swaps only
NextSwaps ==
    \/ SudoSwapExactAmountIn
    \/ SudoSwapExactAmountOut
    \/ Respond
    \/ AdvanceTime

SpecSwaps == Init /\ [][NextSwaps]_vars

\* the registry on its own: no operation of the pool reads or writes it
NextRegistry ==
    \/ CreateAssetGroup
    \/ RemoveAssetGroup
    \/ MarkCorruptedAssetGroup
    \/ UnmarkCorruptedAssetGroup
    \/ Respond

SpecRegistry == Init /\ [][NextRegistry]_vars

\* an AssetGroup value on its own, as a caller builds and edits it
NextAssetGroup ==
    \/ NewAssetGroup
    \/ AddDenoms
    \/ RemoveDenoms
    \/ MarkAsCorrupted
    \/ UnmarkAsCorrupted
    \/ Respond

SpecAssetGroup == Init /\ [][NextAssetGroup]_vars

\* the pool next to a registry in which one group, holding one pooled asset, is
\* created and marked
CorruptedLabel == "group1"

CorruptedGroupDenoms == <<"axlusdc">>

NextCorrupted ==
    \/ Next
    \/ CreateAssetGroupCall(CorruptedLabel, CorruptedGroupDenoms)
    \/ MarkCorruptedAssetGroupCall(CorruptedLabel)
    \/ UnmarkCorruptedAssetGroupCall(CorruptedLabel)

SpecCorrupted == Init /\ [][NextCorrupted]_vars

----------------------------------------------------------------------------
(* Requests the host can make in the current state *)

SwapInCalls ==
    {r \in [token_in : Coins, token_out_denom : RequestDenoms,
            limit : Limits, swap_fee : SwapFees] : FundsExist(<<r.token_in>>)}

SwapOutCalls ==
    {r \in [token_out : Coins, token_in_denom : RequestDenoms,
            limit : Limits, swap_fee : SwapFees] :
        FundsExist(<<Coin(r.token_out.amount, r.token_in_denom)>>)}

SwapIn(r) ==
    SwapExactAmountIn(Storage, now, User, r.token_in, r.token_out_denom, r.limit, r.swap_fee)

SwapOut(r) ==
    SwapExactAmountOut(Storage, now, User, r.token_in_denom, r.limit, r.token_out, r.swap_fee)

IsSwap(call) == call.method \in {"swap_exact_amount_in", "swap_exact_amount_out"}

\* pools a swap may leave behind: any balances whose total is positive
CandidatePools ==
    {p \in [PoolDenoms -> 0..MaxTotal] : TotalPoolValue(p) \in 1..MaxTotal}

----------------------------------------------------------------------------
(* Claims *)

\* C1: the total pooled balance equals the assets received minus the assets
\* sent out over the whole history of supplies, swaps and transmutes; a
\* successful asset-to-asset swap leaves the total unchanged at zero fee and
\* never lowers it at a nonzero fee.
C1_ValueConserved ==
    /\ TotalPoolValue(pool) = net
    /\ last = Idle =>
         /\ \A r \in SwapInCalls :
              (r.token_in.denom \in PoolDenoms /\ r.token_out_denom \in PoolDenoms
                 /\ SwapIn(r).res.ok)
              => IF r.swap_fee = DecZero
                 THEN TotalPoolValue(SwapIn(r).st.pool) = TotalPoolValue(pool)
                 ELSE TotalPoolValue(SwapIn(r).st.pool) >= TotalPoolValue(pool)
         /\ \A r \in SwapOutCalls :
              (r.token_in_denom \in PoolDenoms /\ r.token_out.denom \in PoolDenoms
                 /\ SwapOut(r).res.ok)
              => IF r.swap_fee = DecZero
                 THEN TotalPoolValue(SwapOut(r).st.pool) = TotalPoolValue(pool)
                 ELSE TotalPoolValue(SwapOut(r).st.pool) >= TotalPoolValue(pool)

\* an asset-to-asset swap has succeeded on a pool that was supplied before
C1_Witness ==
    /\ last # Idle
    /\ last.method = "swap_exact_amount_in"
    /\ last.route = "asset"
    /\ last.res.ok
    /\ net = MaxTotal
    /\ shares < net

\* C2: a swap that returns an error, whatever the stage that raised it, leaves
\* the stored pool balances as they were before the call.
C2_FailedSwapKeepsPool ==
    last = Idle =>
      /\ \A r \in SwapInCalls : ~SwapIn(r).res.ok => SwapIn(r).st.pool = pool
      /\ \A r \in SwapOutCalls : ~SwapOut(r).res.ok => SwapOut(r).st.pool = pool

\* a swap was rejected by the limiter, the last check before the pool is saved
C2_Witness ==
    /\ last # Idle
    /\ IsSwap(last)
    /\ ~last.res.ok
    /\ last.res.err.error = "RateLimitExceeded"
    /\ TotalPoolValue(pool) > 0

\* C3: check_limits_and_update is all or nothing: when some tracked key is over
\* its bound the call returns RateLimitExceeded and no window changes; when
\* every key passes, every tracked key's window holds the new observation in
\* a division that covers the current time.
C3_LimiterAllOrNothing ==
    \A p \in CandidatePools :
      LET w == Weights(p).value
          r == check_limits_and_update(limiters, w, now)
          over == {k \in TrackedKeys : CheckLimit(k, limiters[k], w[k], now) # NoError}
      IN  IF over # {}
          THEN /\ ~r.ok
               /\ r.err.error = "RateLimitExceeded"
               /\ r.err.key \in over
               /\ r.limiters = limiters
          ELSE /\ r.ok
               /\ \A k \in TrackedKeys :
                    LET divisions == r.limiters[k]
                        newest == divisions[Len(divisions)]
                    IN  /\ divisions # <<>>
                        /\ newest.started_at <= now
                        /\ now < newest.started_at + DivisionSize(LimiterConfig[k])
                        /\ DecLe(w[k], newest.value)

\* a swap was rejected for whusdc after axlusdc, checked first, was within bound
C3_Witness ==
    /\ last # Idle
    /\ IsSwap(last)
    /\ last.res.err.error = "RateLimitExceeded"
    /\ last.res.err.key = "whusdc"
    /\ \E p \in CandidatePools :
         /\ Weights(p).value["whusdc"] = last.res.err.attempted
         /\ Weights(p).value["axlusdc"] # Weights(pool).value["axlusdc"]
         /\ CheckLimit("axlusdc", limiters["axlusdc"], Weights(p).value["axlusdc"], now)
              = NoError

PoolAfter(token_in, token_out) ==
    [d \in PoolDenoms |->
       (pool[d] + (IF d = token_in.denom THEN token_in.amount ELSE 0))
         - (IF d = token_out.denom THEN token_out.amount ELSE 0)]

\* C5: a swap changes the limiter windows only when it succeeds on the asset
\* route and saves the exchanged pool with them; a failed swap changes neither
\* the pool nor the windows; a successful asset swap on a non-empty pool
\* leaves the windows holding the post-swap weights.
C5_LimiterWithPool ==
    last = Idle =>
      /\ \A r \in SwapInCalls :
           LET out == SwapIn(r)
               token_out == Coin(r.token_in.amount, r.token_out_denom)
           IN  /\ out.st.limiters # limiters =>
                    /\ out.res.ok
                    /\ out.route = "asset"
                    /\ out.st.pool = PoolAfter(r.token_in, token_out)
               /\ ~out.res.ok => (out.st.limiters = limiters /\ out.st.pool = pool)
               /\ (out.res.ok /\ out.route = "asset" /\ Weights(out.st.pool).some) =>
                    \A k \in TrackedKeys :
                      out.st.limiters[k] =
                        UpdateDivisions(k, limiters[k], Weights(out.st.pool).value[k], now)
      /\ \A r \in SwapOutCalls :
           LET out == SwapOut(r)
               token_in == Coin(r.token_out.amount, r.token_in_denom)
           IN  /\ out.st.limiters # limiters =>
                    /\ out.res.ok
                    /\ out.route = "asset"
                    /\ out.st.pool = PoolAfter(token_in, r.token_out)
               /\ ~out.res.ok => (out.st.limiters = limiters /\ out.st.pool = pool)
               /\ (out.res.ok /\ out.route = "asset" /\ Weights(out.st.pool).some) =>
                    \A k \in TrackedKeys :
                      out.st.limiters[k] =
                        UpdateDivisions(k, limiters[k], Weights(out.st.pool).value[k], now)

\* an exact-out asset swap has succeeded and both the windows and the pool
\* carry it
C5_Witness ==
    /\ last # Idle
    /\ last.method = "swap_exact_amount_out"
    /\ last.route = "asset"
    /\ last.res.ok
    /\ limiters["axlusdc"] # <<>>
    /\ limiters["axlusdc"][Len(limiters["axlusdc"])].value = Weights(pool).value["axlusdc"]
    /\ pool["axlusdc"] > 0

\* C6: swap_exact_in whose token_in.amount is below min_out fails with
\* InsufficientTokenOut{required: min_out, available: token_in.amount} whatever
\* the denoms, emits no message and leaves the storage as it was.
C6_BelowMinOutRejected ==
    last = Idle =>
      \A r \in SwapInCalls :
        r.token_in.amount < r.limit =>
          /\ SwapIn(r).res = Err([error |-> "InsufficientTokenOut", required |-> r.limit,
                                  available |-> r.token_in.amount])
          /\ SwapIn(r).res.messages = <<>>
          /\ SwapIn(r).st = Storage

\* an exact-in swap was rejected for its min_out on a pool holding assets
C6_Witness ==
    /\ last # Idle
    /\ last.method = "swap_exact_amount_in"
    /\ last.res.err.error = "InsufficientTokenOut"
    /\ last.res.err.required > last.res.err.available
    /\ shares > 0
    /\ TotalPoolValue(pool) = MaxTotal

\* C7: swap_exact_out whose token_out.amount is above max_in fails with
\* ExcessiveRequiredTokenIn{limit: max_in, required: token_out.amount} whatever
\* the denoms, emits no message and leaves the storage as it was.
C7_AboveMaxInRejected ==
    last = Idle =>
      \A r \in SwapOutCalls :
        r.token_out.amount > r.limit =>
          /\ SwapOut(r).res = Err([error |-> "ExcessiveRequiredTokenIn", limit |-> r.limit,
                                   required |-> r.token_out.amount])
          /\ SwapOut(r).res.messages = <<>>
          /\ SwapOut(r).st = Storage

\* an exact-out swap was rejected for its max_in on a pool holding assets
C7_Witness ==
    /\ last # Idle
    /\ last.method = "swap_exact_amount_out"
    /\ last.res.err.error = "ExcessiveRequiredTokenIn"
    /\ last.res.err.required > last.res.err.limit
    /\ shares > 0
    /\ TotalPoolValue(pool) = MaxTotal

\* C8: a successful exact-in swap of x of pooled denom A for another pooled
\* denom B at fee 0 sends exactly x of B to the sender, reports x, adds x to
\* A's balance, takes x from B's balance and leaves the other balances alone.
C8_ExactInAtParity ==
    last = Idle =>
      \A r \in SwapInCalls :
        LET out == SwapIn(r)
            A == r.token_in.denom
            B == r.token_out_denom
            x == r.token_in.amount
        IN  (A \in PoolDenoms /\ B \in PoolDenoms /\ A # B /\ r.swap_fee = DecZero
               /\ out.res.ok)
            => /\ r.limit <= x
               /\ pool[B] >= x
               /\ out.res.messages = <<BankSend(User, Coin(x, B))>>
               /\ out.res.data = SwapExactAmountInResponseData(x)
               /\ out.st.pool[A] = pool[A] + x
               /\ out.st.pool[B] = pool[B] - x
               /\ \A d \in PoolDenoms \ {A, B} : out.st.pool[d] = pool[d]

\* an exact-in asset swap has succeeded and sent the whole amount out
C8_Witness ==
    /\ last # Idle
    /\ last.method = "swap_exact_amount_in"
    /\ last.route = "asset"
    /\ last.res.ok
    /\ last.res.messages[1].amount.amount = MaxAmount
    /\ pool[last.res.messages[1].amount.denom] = 0
    /\ TotalPoolValue(pool) = MaxTotal

\* C9: a successful exact-out swap asking y of pooled denom B paid in another
\* pooled denom A at fee 0 sends exactly y of B to the sender, reports
\* token_in_amount = y, adds y to A's balance and takes y from B's balance.
C9_ExactOutAtParity ==
    last = Idle =>
      \A r \in SwapOutCalls :
        LET out == SwapOut(r)
            A == r.token_in_denom
            B == r.token_out.denom
            y == r.token_out.amount
        IN  (A \in PoolDenoms /\ B \in PoolDenoms /\ A # B /\ r.swap_fee = DecZero
               /\ out.res.ok)
            => /\ r.limit >= y
               /\ pool[B] >= y
               /\ out.res.messages = <<BankSend(User, Coin(y, B))>>
               /\ out.res.data = SwapExactAmountOutResponseData(y)
               /\ out.st.pool[A] = pool[A] + y
               /\ out.st.pool[B] = pool[B] - y
               /\ \A d \in PoolDenoms \ {A, B} : out.st.pool[d] = pool[d]

\* an exact-out asset swap has succeeded and sent the whole amount out
C9_Witness ==
    /\ last # Idle
    /\ last.method = "swap_exact_amount_out"
    /\ last.route = "asset"
    /\ last.res.ok
    /\ last.res.data.token_in_amount = MaxAmount
    /\ last.res.messages[1].amount.amount = MaxAmount
    /\ pool[last.res.messages[1].amount.denom] = 0

\* C10 as stated: at a nonzero fee an exact-in asset swap whose fee-reduced
\* output is positive, reaches min_out and is covered by the pool's balance is
\* not turned away by the min-out check or by the parity assertion, and when
\* it succeeds the sender gets the fee-reduced amount while the pool keeps the
\* fee.
C10_AsStated ==
    last = Idle =>
      \A r \in SwapInCalls :
        LET out == SwapIn(r)
            reduced == OutGivenIn(r.token_in.amount, r.swap_fee)
        IN  (r.token_in.denom \in PoolDenoms /\ r.token_out_denom \in PoolDenoms
               /\ r.swap_fee # DecZero /\ reduced >= r.limit /\ reduced > 0
               /\ pool[r.token_out_denom] >= reduced)
            => /\ out.res.err.error \notin {"InsufficientTokenOut", "InvalidTokenOutAmount"}
               /\ out.res.ok =>
                    /\ out.res.messages = <<BankSend(User, Coin(reduced, r.token_out_denom))>>
                    /\ TotalPoolValue(out.st.pool)
                         = TotalPoolValue(pool) + (r.token_in.amount - reduced)

\* C11: an asset swap that leaves nothing pooled finds weights() absent: it
\* is not checked by the limiter, succeeds and leaves every window as it was;
\* no swap on an empty pool is rejected with RateLimitExceeded.  When the
\* exchanged pool holds something, the swap succeeds exactly when the limiter
\* admits the post-swap weights, the windows are what the limiter returns, and
\* the pool is saved only if it admitted them.
C11_WeightsAbsentSkipsLimiter ==
    last = Idle =>
      /\ \A r \in SwapInCalls :
           LET out == SwapIn(r)
               calc == do_calc_out_amt_given_in(pool, r.token_in, r.token_out_denom,
                                                r.swap_fee)
               computed == /\ r.token_in.denom \in PoolDenoms
                           /\ r.token_out_denom \in PoolDenoms
                           /\ r.token_in.amount >= r.limit
                           /\ calc.ok
                           /\ calc.coin = Coin(r.token_in.amount, r.token_out_denom)
           IN  /\ TotalPoolValue(pool) = 0 =>
                    /\ out.res.err.error # "RateLimitExceeded"
                    /\ out.st.limiters = limiters
               /\ computed =>
                    IF TotalPoolValue(calc.pool) = 0
                    THEN /\ Weights(calc.pool) = None
                         /\ out.res.ok
                         /\ out.st.limiters = limiters
                         /\ out.st.pool = calc.pool
                    ELSE LET lim == check_limits_and_update(limiters,
                                                            Weights(calc.pool).value, now)
                         IN  /\ out.res.ok = lim.ok
                             /\ out.st.limiters = lim.limiters
                             /\ out.st.pool = IF lim.ok THEN calc.pool ELSE pool
                             /\ ~lim.ok => out.res.err = lim.err
      /\ \A r \in SwapOutCalls :
           LET out == SwapOut(r)
               calc == do_calc_in_amt_given_out(pool, r.token_out, r.token_in_denom,
                                                r.swap_fee)
               computed == /\ r.token_in_denom \in PoolDenoms
                           /\ r.token_out.denom \in PoolDenoms
                           /\ r.token_out.amount <= r.limit
                           /\ calc.ok
                           /\ calc.coin = Coin(r.token_out.amount, r.token_in_denom)
           IN  /\ TotalPoolValue(pool) = 0 =>
                    /\ out.res.err.error # "RateLimitExceeded"
                    /\ out.st.limiters = limiters
               /\ computed =>
                    IF TotalPoolValue(calc.pool) = 0
                    THEN /\ Weights(calc.pool) = None
                         /\ out.res.ok
                         /\ out.st.limiters = limiters
                         /\ out.st.pool = calc.pool
                    ELSE LET lim == check_limits_and_update(limiters,
                                                            Weights(calc.pool).value, now)
                         IN  /\ out.res.ok = lim.ok
                             /\ out.st.limiters = lim.limiters
                             /\ out.st.pool = IF lim.ok THEN calc.pool ELSE pool
                             /\ ~lim.ok => out.res.err = lim.err

\* an asset swap has succeeded on a pool that was emptied, while the window of
\* axlusdc still holds a weight that a weight of zero would be too far from
C11_Witness ==
    /\ last # Idle
    /\ IsSwap(last)
    /\ last.route = "asset"
    /\ last.res.ok
    /\ TotalPoolValue(pool) = 0
    /\ CheckLimit("axlusdc", limiters["axlusdc"], DecZero, now) # NoError

\* pooled denoms listed by a group of the registry that is marked corrupted
CorruptedDenoms ==
    {d \in PoolDenoms :
       \E label \in DOMAIN asset_groups :
         /\ is_corrupted(asset_groups[label])
         /\ \E i \in 1..Len(asset_groups[label].denoms) : asset_groups[label].denoms[i] = d}

C13_BalancesNonNegative ==
    /\ \A d \in PoolDenoms : pool[d] >= 0
    /\ last = Idle =>
         /\ \A r \in SwapInCalls :
              LET out == SwapIn(r)
                  B == r.token_out_denom
                  x == r.token_in.amount
                  taken == IF r.token_in.denom = AlloyedDenom THEN x
                           ELSE OutGivenIn(x, r.swap_fee)
              IN  B \in PoolDenoms =>
                    /\ x > pool[B] => (~out.res.ok /\ out.st = Storage)
                    /\ (taken > pool[B] /\ x >= r.limit) =>
                         out.res = Err([error |-> "InsufficientPoolAsset",
                                        required |-> taken, available |-> pool[B]])
         /\ \A r \in SwapOutCalls :
              LET out == SwapOut(r)
                  B == r.token_out.denom
                  y == r.token_out.amount
              IN  (B \in PoolDenoms /\ y > pool[B]) =>
                    /\ ~out.res.ok
                    /\ out.st = Storage
                    /\ y <= r.limit =>
                         out.res = Err([error |-> "InsufficientPoolAsset",
                                        required |-> y, available |-> pool[B]])
         /\ \A funds \in FundsChoices :
              LET out == TransmuterTransmute(Storage, User, funds)
              IN  (Len(funds) = 1 /\ funds[1].amount > pool[TransmuteOutDenom]) =>
                    /\ ~out.res.ok
                    /\ out.res.messages = <<>>
                    /\ out.st = Storage
                    /\ funds[1].denom = TransmuteInDenom =>
                         out.res = Err([error |-> "InsufficientPoolAsset",
                                        required |-> funds[1].amount,
                                        available |-> pool[TransmuteOutDenom]])

\* an asset swap asked for more than the pool held of a denom it does hold
C13_Witness ==
    /\ last # Idle
    /\ IsSwap(last)
    /\ last.route = "asset"
    /\ last.res.err.error = "InsufficientPoolAsset"
    /\ last.res.err.available > 0
    /\ last.res.err.required > last.res.err.available
    /\ \E d \in PoolDenoms : pool[d] = last.res.err.available

\* C14: a swap, exact-in or exact-out, paid in the alloyed denom and covered
\* by the pool's balance of the requested denom answers with MsgBurn of the
\* alloyed amount followed by BankMsg::Send of the same amount of the
\* requested denom to the sender, and reports that amount; the shares and the
\* pool's balance go down by it; the swap fee plays no part and the limiter
\* windows are left alone.
C14_AlloyedInBurnsThenSends ==
    last = Idle =>
      /\ \A r \in SwapInCalls :
           LET out == SwapIn(r)
               B == r.token_out_denom
               x == r.token_in.amount
           IN  r.token_in.denom = AlloyedDenom =>
                 /\ \A fee \in SwapFees : SwapIn([r EXCEPT !.swap_fee = fee]) = out
                 /\ out.st.limiters = limiters
                 /\ out.res.ok => (B \in PoolDenoms /\ x >= r.limit /\ pool[B] >= x)
                 /\ (B \in PoolDenoms /\ x >= r.limit /\ pool[B] >= x) =>
                      /\ out.res = Ok(<<MsgBurn(Coin(x, AlloyedDenom)),
                                        BankSend(User, Coin(x, B))>>,
                                      SwapExactAmountInResponseData(x))
                      /\ out.st.pool = [pool EXCEPT ![B] = @ - x]
                      /\ out.st.shares = shares - x
      /\ \A r \in SwapOutCalls :
           LET out == SwapOut(r)
               B == r.token_out.denom
               y == r.token_out.amount
           IN  r.token_in_denom = AlloyedDenom =>
                 /\ \A fee \in SwapFees : SwapOut([r EXCEPT !.swap_fee = fee]) = out
                 /\ out.st.limiters = limiters
                 /\ out.res.ok => (B \in PoolDenoms /\ y <= r.limit /\ pool[B] >= y)
                 /\ (B \in PoolDenoms /\ y <= r.limit /\ pool[B] >= y) =>
                      /\ out.res = Ok(<<MsgBurn(Coin(y, AlloyedDenom)),
                                        BankSend(User, Coin(y, B))>>,
                                      SwapExactAmountOutResponseData(y))
                      /\ out.st.pool = [pool EXCEPT ![B] = @ - y]
                      /\ out.st.shares = shares - y

\* an exact-out swap has burned the largest amount of shares and sent the
\* same amount out
C14_Witness ==
    /\ last # Idle
    /\ last.method = "swap_exact_amount_out"
    /\ last.route = "alloyed_in"
    /\ last.res.ok
    /\ last.res.messages[1].type = "MsgBurn"
    /\ last.res.messages[1].amount.amount = MaxAmount
    /\ last.res.messages[2].type = "BankMsg::Send"
    /\ last.res.data.token_in_amount = MaxAmount

\* C15: a swap, exact-in or exact-out, of a pooled asset for the alloyed denom
\* that passes its min-out or max-in check answers with a single MsgMint of
\* as many alloyed shares to the sender as the amount of the asset supplied,
\* sends no pooled asset, and reports that amount; the pool's balance of the
\* asset and the shares go up by it, whatever the swap fee.
C15_AlloyedOutMints ==
    last = Idle =>
      /\ \A r \in SwapInCalls :
           LET out == SwapIn(r)
               A == r.token_in.denom
               x == r.token_in.amount
           IN  (A \in PoolDenoms /\ r.token_out_denom = AlloyedDenom) =>
                 /\ \A fee \in SwapFees : SwapIn([r EXCEPT !.swap_fee = fee]) = out
                 /\ out.st.limiters = limiters
                 /\ out.res.ok = (x >= r.limit)
                 /\ out.res.ok =>
                      /\ out.res = Ok(<<MsgMint(User, Coin(x, AlloyedDenom))>>,
                                      SwapExactAmountInResponseData(x))
                      /\ Sent(out.res.messages) = 0
                      /\ out.st.pool = [pool EXCEPT ![A] = @ + x]
                      /\ out.st.shares = shares + x
      /\ \A r \in SwapOutCalls :
           LET out == SwapOut(r)
               A == r.token_in_denom
               y == r.token_out.amount
           IN  (A \in PoolDenoms /\ r.token_out.denom = AlloyedDenom) =>
                 /\ \A fee \in SwapFees : SwapOut([r EXCEPT !.swap_fee = fee]) = out
                 /\ out.st.limiters = limiters
                 /\ out.res.ok = (y <= r.limit)
                 /\ out.res.ok =>
                      /\ out.res = Ok(<<MsgMint(User, Coin(y, AlloyedDenom))>>,
                                      SwapExactAmountOutResponseData(y))
                      /\ Sent(out.res.messages) = 0
                      /\ out.st.pool = [pool EXCEPT ![A] = @ + y]
                      /\ out.st.shares = shares + y

\* an exact-in swap has minted shares for an asset added to a pool that
\* already held some
C15_Witness ==
    /\ last # Idle
    /\ last.method = "swap_exact_amount_in"
    /\ last.route = "alloyed_out"
    /\ last.res.ok
    /\ Len(last.res.messages) = 1
    /\ last.res.messages[1].type = "MsgMint"
    /\ last.res.messages[1].amount.amount > 0
    /\ last.res.data.token_out_amount = last.res.messages[1].amount.amount
    /\ shares = MaxTotal
    /\ \E d \in PoolDenoms : pool[d] > 0 /\ pool[d] < MaxTotal

\* C16: supply succeeds only on funds made of one coin whose denom the pool
\* holds, and then adds the coin's amount to that denom's balance and changes
\* nothing else; funds of any other length fail with the Std error, a coin of
\* an unknown denom fails, and every failure leaves the storage as it was.
C16_SupplyOneKnownDenom ==
    last = Idle =>
      \A funds \in FundsChoices :
        LET out == TransmuterSupply(Storage, funds)
        IN  /\ out.res.messages = <<>>
            /\ out.st.limiters = limiters
            /\ out.st.shares = shares
            /\ out.res.ok =>
                 /\ Len(funds) = 1
                 /\ funds[1].denom \in PoolDenoms
                 /\ out.st.pool = [pool EXCEPT ![funds[1].denom] = @ + funds[1].amount]
            /\ ~out.res.ok => out.st = Storage
            /\ Len(funds) # 1 =>
                 out.res = Err([error |-> "Std",
                                msg |-> "supply requires funds to have exactly one denom"])
            /\ (Len(funds) = 1 /\ funds[1].denom \notin PoolDenoms) => ~out.res.ok

\* a supply of a denom the pool does not hold was refused by a pool that had
\* been supplied before
C16_Witness ==
    /\ last # Idle
    /\ last.method = "supply"
    /\ ~last.res.ok
    /\ last.res.err.error = "InvalidPoolAssetDenom"
    /\ last.res.err.denom = UnknownDenom
    /\ TotalPoolValue(pool) > shares

\* C17: a transmute that succeeds was paid one coin of amount x; it sends the
\* caller exactly x of the configured out denom in one BankMsg::Send and takes
\* x off the pool's balance of that denom.  It fails with SingleCoinExpected
\* when the funds are not one coin, and fails when the pool holds less than x
\* of the out denom; a failure sends nothing and leaves the storage as it was.
\* One coin of the in denom covered by the pool's out balance succeeds.
C17_TransmuteAtParity ==
    last = Idle =>
      \A funds \in FundsChoices :
        LET out == TransmuterTransmute(Storage, User, funds)
        IN  /\ Len(funds) # 1 => out.res = Err([error |-> "SingleCoinExpected"])
            /\ ~out.res.ok => (out.res.messages = <<>> /\ out.st = Storage)
            /\ (Len(funds) = 1 /\ funds[1].amount > pool[TransmuteOutDenom]) => ~out.res.ok
            /\ (Len(funds) = 1 /\ funds[1].denom = TransmuteInDenom
                  /\ funds[1].amount <= pool[TransmuteOutDenom]) => out.res.ok
            /\ out.res.ok =>
                 /\ Len(funds) = 1
                 /\ out.res.messages
                      = <<BankSend(User, Coin(funds[1].amount, TransmuteOutDenom))>>
                 /\ out.st.pool[TransmuteOutDenom]
                      = pool[TransmuteOutDenom] - funds[1].amount
                 /\ \A d \in PoolDenoms \ {TransmuteInDenom, TransmuteOutDenom} :
                      out.st.pool[d] = pool[d]
                 /\ out.st.limiters = limiters
                 /\ out.st.shares = shares

\* a transmute has sent out everything the pool held of the out denom
C17_Witness ==
    /\ last # Idle
    /\ last.method = "transmute"
    /\ last.res.ok
    /\ last.res.messages = <<BankSend(User, Coin(MaxAmount, TransmuteOutDenom))>>
    /\ pool[TransmuteOutDenom] = 0
    /\ pool[TransmuteInDenom] = MaxAmount

\* C18: create_asset_group on a label of the registry fails with
\* AssetGroupAlreadyExists{label} and leaves every group, the existing one's
\* denoms and flag included, as it was; on an absent label it adds a group
\* whose denoms are the given list, in order and with its duplicates, and whose
\* flag is false, and leaves the other groups as they were.
C18_CreateAssetGroup ==
    last = Idle =>
      \A label \in Labels, denoms \in DenomLists :
        LET r == create_asset_group(asset_groups, label, denoms)
        IN  IF has(asset_groups, label)
            THEN /\ ~r.ok
                 /\ r.err = [error |-> "AssetGroupAlreadyExists", label |-> label]
                 /\ r.groups = asset_groups
            ELSE /\ r.ok
                 /\ DOMAIN r.groups = DOMAIN asset_groups \cup {label}
                 /\ r.groups[label] = [denoms |-> denoms, is_corrupted |-> FALSE]
                 /\ \A l \in DOMAIN asset_groups : r.groups[l] = asset_groups[l]

\* a create was refused for a label whose group is marked corrupted and holds
\* a repeated denom, next to another group
C18_Witness ==
    /\ last # Idle
    /\ last.method = "create_asset_group"
    /\ last.res.err = [error |-> "AssetGroupAlreadyExists", label |-> last.label]
    /\ asset_groups[last.label] = [denoms |-> <<"axlusdc", "axlusdc">>, is_corrupted |-> TRUE]
    /\ DOMAIN asset_groups = Labels

\* C19: a label is in the registry exactly when the last successful create or
\* remove on it was a create; creating it again without removing it fails
\* with AssetGroupAlreadyExists; after a removal a create succeeds and the new
\* group is uncorrupted and holds the new denoms only, whatever the removed
\* group held.
C19_HasTracksLastCreate ==
    /\ \A label \in Labels : has(asset_groups, label) <=> created[label].op = "create"
    /\ last = Idle =>
         \A label \in Labels, denoms \in DenomLists :
           LET r == create_asset_group(asset_groups, label, denoms)
           IN  /\ created[label].op = "create" =>
                    (~r.ok /\ r.err.error = "AssetGroupAlreadyExists")
               /\ created[label].op = "remove" =>
                    /\ r.ok
                    /\ has(r.groups, label)
                    /\ ~is_corrupted(r.groups[label])
                    /\ r.groups[label].denoms = denoms

\* a label whose group was removed while marked corrupted has been created
\* again with other denoms
C19_Witness ==
    /\ last # Idle
    /\ last.method = "create_asset_group"
    /\ last.res.ok
    /\ created[last.label].op = "create"
    /\ created[last.label].corrupted
    /\ created[last.label].denoms # <<>>
    /\ asset_groups[last.label].denoms # created[last.label].denoms
    /\ ~is_corrupted(asset_groups[last.label])

\* C20: remove_asset_group on an absent label fails with
\* AssetGroupNotFound{label} and leaves the registry as it was; on a present
\* label it deletes that entry and no other.
C20_RemoveAssetGroup ==
    last = Idle =>
      \A label \in Labels :
        LET r == remove_asset_group(asset_groups, label)
        IN  IF has(asset_groups, label)
            THEN /\ r.ok
                 /\ DOMAIN r.groups = DOMAIN asset_groups \ {label}
                 /\ \A l \in DOMAIN r.groups : r.groups[l] = asset_groups[l]
            ELSE /\ ~r.ok
                 /\ r.err = [error |-> "AssetGroupNotFound", label |-> label]
                 /\ r.groups = asset_groups

\* a group was removed and the other one, marked corrupted, is still there
C20_Witness ==
    /\ last # Idle
    /\ last.method = "remove_asset_group"
    /\ last.res.ok
    /\ ~has(asset_groups, last.label)
    /\ \E l \in DOMAIN asset_groups :
         is_corrupted(asset_groups[l]) /\ asset_groups[l].denoms # <<>>

\* C21: mark_corrupted_asset_group and unmark_corrupted_asset_group on an
\* absent label fail with AssetGroupNotFound{label}, create no entry and change
\* no group; on a present label mark sets that group's flag to true and unmark
\* sets it to false, and the group's denoms and every other group's flag and
\* denoms stay as they were.
C21_MarkUnmarkOneGroup ==
    last = Idle =>
      \A label \in Labels :
        LET m == mark_corrupted_asset_group(asset_groups, label)
            u == unmark_corrupted_asset_group(asset_groups, label)
        IN  IF has(asset_groups, label)
            THEN /\ m.ok /\ u.ok
                 /\ DOMAIN m.groups = DOMAIN asset_groups
                 /\ DOMAIN u.groups = DOMAIN asset_groups
                 /\ m.groups[label].is_corrupted = TRUE
                 /\ u.groups[label].is_corrupted = FALSE
                 /\ m.groups[label].denoms = asset_groups[label].denoms
                 /\ u.groups[label].denoms = asset_groups[label].denoms
                 /\ \A l \in DOMAIN asset_groups \ {label} :
                      m.groups[l] = asset_groups[l] /\ u.groups[l] = asset_groups[l]
            ELSE /\ m = [ok |-> FALSE,
                         err |-> [error |-> "AssetGroupNotFound", label |-> label],
                         groups |-> asset_groups]
                 /\ u = [ok |-> FALSE,
                         err |-> [error |-> "AssetGroupNotFound", label |-> label],
                         groups |-> asset_groups]

\* a group was marked next to another group that holds denoms and is not
\* marked
C21_Witness ==
    /\ last # Idle
    /\ last.method = "mark_corrupted_asset_group"
    /\ last.res.ok
    /\ is_corrupted(asset_groups[last.label])
    /\ asset_groups[last.label].denoms = <<"usdt", "axlusdc">>
    /\ \E l \in DOMAIN asset_groups \ {last.label} :
         ~is_corrupted(asset_groups[l]) /\ asset_groups[l].denoms # <<>>

\* C22: from any AssetGroup value, is_corrupted() is true after one, two or
\* three consecutive mark_as_corrupted calls and false after one, two or three
\* consecutive unmark_as_corrupted calls; unmark after mark gives false; a
\* group that was just created is not corrupted.
C22_CorruptionIdempotent ==
    /\ (last # Idle /\ last.method = "mark_as_corrupted") => is_corrupted(asset_group)
    /\ (last # Idle /\ last.method = "unmark_as_corrupted") => ~is_corrupted(asset_group)
    /\ (last # Idle /\ last.method = "new") => ~is_corrupted(asset_group)
    /\ last = Idle =>
         LET g == asset_group
         IN  /\ is_corrupted(mark_as_corrupted(g))
             /\ is_corrupted(mark_as_corrupted(mark_as_corrupted(g)))
             /\ is_corrupted(mark_as_corrupted(mark_as_corrupted(mark_as_corrupted(g))))
             /\ ~is_corrupted(unmark_as_corrupted(g))
             /\ ~is_corrupted(unmark_as_corrupted(unmark_as_corrupted(g)))
             /\ ~is_corrupted(unmark_as_corrupted(unmark_as_corrupted(unmark_as_corrupted(g))))
             /\ ~is_corrupted(unmark_as_corrupted(mark_as_corrupted(g)))
             /\ ~is_corrupted(unmark_as_corrupted(mark_as_corrupted(mark_as_corrupted(g))))
             /\ \A denoms \in DenomArgs : ~is_corrupted(AssetGroupNew(denoms))

\* a group holding denoms that was already marked has been marked again
C22_Witness ==
    /\ last # Idle
    /\ last.method = "mark_as_corrupted"
    /\ is_corrupted(last.before)
    /\ is_corrupted(asset_group)
    /\ asset_group.denoms # <<>>

\* how many times d occurs in list
Occurrences(list, d) == Cardinality({i \in 1..Len(list) : list[i] = d})

\* a is b with some entries left out, the others in their order
RECURSIVE IsSubsequence(_, _)
IsSubsequence(a, b) ==
    IF a = <<>> THEN TRUE
    ELSE IF b = <<>> THEN FALSE
    ELSE IF Head(a) = Head(b) THEN IsSubsequence(Tail(a), Tail(b))
    ELSE IsSubsequence(a, Tail(b))

\* after is before without any occurrence of the denoms named, the other
\* entries kept, each as often as before and in their order
Filtered(before, named, after) ==
    /\ \A d \in GroupDenoms :
         Occurrences(after, d) = IF Contains(named, d) THEN 0 ELSE Occurrences(before, d)
    /\ Len(after) <= Len(before)
    /\ IsSubsequence(after, before)

\* C23: remove_denoms(list) leaves no occurrence of any denom named in the
\* list, keeps every other entry, as often as it occurred and in the original
\* relative order, and leaves the corruption flag as it was.
C23_RemoveDenomsFilters ==
    /\ (last # Idle /\ last.method = "remove_denoms") =>
         /\ Filtered(last.before.denoms, last.denoms, asset_group.denoms)
         /\ is_corrupted(asset_group) = is_corrupted(last.before)
    /\ last = Idle =>
         \A denoms \in DenomArgs :
           LET r == remove_denoms(asset_group, denoms)
           IN  /\ Filtered(asset_group.denoms, denoms, r.denoms)
               /\ is_corrupted(r) = is_corrupted(asset_group)

\* a denom listed twice by a marked group was removed: both occurrences are
\* gone and the two other entries are left in their order
C23_Witness ==
    /\ last # Idle
    /\ last.method = "remove_denoms"
    /\ last.before.denoms = <<"denom2", "denom1", "denom2", "denom3">>
    /\ last.denoms = <<"denom2">>
    /\ asset_group.denoms = <<"denom1", "denom3">>
    /\ is_corrupted(asset_group)

\* after is before with the entries of added behind it, in their order
Appended(before, added, after) ==
    /\ Len(after) = Len(before) + Len(added)
    /\ \A i \in 1..Len(before) : after[i] = before[i]
    /\ \A j \in 1..Len(added) : after[Len(before) + j] = added[j]

\* C24: add_denoms(list) puts the given denoms behind the group's entries in
\* the order given, keeps every existing entry in its place, adds a denom
\* again when the group lists it already, and leaves the corruption flag as
\* it was.
C24_AddDenomsAppends ==
    /\ (last # Idle /\ last.method = "add_denoms") =>
         /\ Appended(last.before.denoms, last.denoms, asset_group.denoms)
         /\ is_corrupted(asset_group) = is_corrupted(last.before)
    /\ last = Idle =>
         \A denoms \in DenomArgs :
           LET r == add_denoms(asset_group, denoms)
           IN  /\ Appended(asset_group.denoms, denoms, r.denoms)
               /\ \A d \in GroupDenoms :
                    Occurrences(r.denoms, d)
                      = Occurrences(asset_group.denoms, d) + Occurrences(denoms, d)
               /\ is_corrupted(r) = is_corrupted(asset_group)

\* a denom a marked group lists already was added again, with a new one
C24_Witness ==
    /\ last # Idle
    /\ last.method = "add_denoms"
    /\ last.before.denoms = <<"denom1", "denom2">>
    /\ last.denoms = <<"denom2", "denom3">>
    /\ asset_group.denoms = <<"denom1", "denom2", "denom2", "denom3">>
    /\ is_corrupted(asset_group)

\* no denom occurs in both lists
Disjoint(a, b) == \A i \in 1..Len(a) : ~Contains(b, a[i])

\* C25: add_denoms followed by remove_denoms keeps every entry whose denom is
\* not named by the removal, as often as the group and the addition held it;
\* when the removal names none of the denoms added, the added entries end the
\* sequence in the order given; remove_denoms of denoms the group does not
\* list leaves the sequence identical, same entries in the same order.
C25_DenomListFidelity ==
    /\ (last # Idle /\ last.method = "remove_denoms"
          /\ Disjoint(last.denoms, last.before.denoms)) =>
         asset_group = last.before
    /\ last = Idle =>
         \A removed \in DenomArgs :
           /\ Disjoint(removed, asset_group.denoms) =>
                remove_denoms(asset_group, removed).denoms = asset_group.denoms
           /\ \A added \in DenomArgs :
                LET r == remove_denoms(add_denoms(asset_group, added), removed)
                    n == Len(r.denoms)
                IN  /\ \A d \in GroupDenoms :
                         ~Contains(removed, d) =>
                           Occurrences(r.denoms, d)
                             = Occurrences(asset_group.denoms, d) + Occurrences(added, d)
                    /\ Disjoint(removed, added) =>
                         /\ n >= Len(added)
                         /\ \A j \in 1..Len(added) : r.denoms[n - Len(added) + j] = added[j]
                    /\ (Disjoint(removed, added) /\ Disjoint(removed, asset_group.denoms)) =>
                         r.denoms = asset_group.denoms \o added

\* a group grown by add_denoms to three entries, one denom twice, was asked to
\* remove a denom it does not list
C25_Witness ==
    /\ last # Idle
    /\ last.method = "remove_denoms"
    /\ last.before.denoms = <<"denom1", "denom2", "denom1">>
    /\ last.denoms = <<"denom3">>
    /\ asset_group.denoms = <<"denom1", "denom2", "denom1">>

\* C26 as stated: the min_out / max_in check comes after the request has been
\* routed and its counter-amount computed and before the limiter check: a
\* swap answers InsufficientTokenOut or ExcessiveRequiredTokenIn only for a
\* request that took one of the three routes and, on the asset route, whose
\* calculation went through; and never after the limiter has been consulted.
C26_AsStated ==
    last = Idle =>
      /\ \A r \in SwapInCalls :
           LET out == SwapIn(r)
               calc == do_calc_out_amt_given_in(pool, r.token_in, r.token_out_denom,
                                                r.swap_fee)
           IN  out.res.err.error = "InsufficientTokenOut" =>
                 /\ out.route \in {"alloyed_in", "alloyed_out", "asset"}
                 /\ out.route = "asset" => calc.ok
                 /\ (r.token_in.denom \in PoolDenoms /\ r.token_out_denom \in PoolDenoms) =>
                      calc.ok
                 /\ out.st.limiters = limiters
      /\ \A r \in SwapOutCalls :
           LET out == SwapOut(r)
               calc == do_calc_in_amt_given_out(pool, r.token_out, r.token_in_denom,
                                                r.swap_fee)
           IN  out.res.err.error = "ExcessiveRequiredTokenIn" =>
                 /\ out.route \in {"alloyed_in", "alloyed_out", "asset"}
                 /\ out.route = "asset" => calc.ok
                 /\ (r.token_in_denom \in PoolDenoms /\ r.token_out.denom \in PoolDenoms) =>
                      calc.ok
                 /\ out.st.limiters = limiters

\* C27 as stated: the parity assertion never fires: an asset-to-asset swap
\* that passes its min_out or max_in check never fails with
\* InvalidTokenOutAmount (exact-in) or InvalidTokenInAmount (exact-out).
C27_AsStated ==
    last = Idle =>
      /\ \A r \in SwapInCalls :
           (/\ r.token_in.denom \in PoolDenoms
            /\ r.token_out_denom \in PoolDenoms
            /\ r.token_in.amount >= r.limit)
           => SwapIn(r).res.err.error # "InvalidTokenOutAmount"
      /\ \A r \in SwapOutCalls :
           (/\ r.token_in_denom \in PoolDenoms
            /\ r.token_out.denom \in PoolDenoms
            /\ r.token_out.amount <= r.limit)
           => SwapOut(r).res.err.error # "InvalidTokenInAmount"

\* the route the denoms of a request select
ExpectedRoute(token_in_denom, token_out_denom) ==
    IF token_in_denom = AlloyedDenom THEN "alloyed_in"
    ELSE IF token_out_denom = AlloyedDenom THEN "alloyed_out"
    ELSE "asset"

\* what a route shows of itself: the alloyed routes answer the same whatever
\* the fee, leave the limiter windows alone and never fail with the errors of
\* the calculation's parity assertion or of the limiter; a success burns
\* first on the alloyed-in route, mints on the alloyed-out route and only
\* sends on the asset route
RouteTaken(out, others) ==
    /\ out.route \in {"alloyed_in", "alloyed_out"} =>
         /\ \A o \in others : o = out
         /\ out.st.limiters = limiters
         /\ out.res.err.error \notin
              {"RateLimitExceeded", "InvalidTokenOutAmount", "InvalidTokenInAmount"}
    /\ out.res.ok =>
         /\ out.route = "alloyed_in" =>
              (Len(out.res.messages) = 2 /\ out.res.messages[1].type = "MsgBurn"
                 /\ out.res.messages[2].type = "BankMsg::Send")
         /\ out.route = "alloyed_out" =>
              (Len(out.res.messages) = 1 /\ out.res.messages[1].type = "MsgMint")
         /\ out.route = "asset" =>
              (Len(out.res.messages) = 1 /\ out.res.messages[1].type = "BankMsg::Send")

\* C28: a swap request that is not turned away by the min_out / max_in check
\* takes exactly one route, chosen in a fixed order: alloyed-in when the input
\* denom is the alloyed denom, also when the output denom is the alloyed denom
\* too; otherwise alloyed-out when the output denom is the alloyed denom;
\* otherwise asset-to-asset.  The calculation and the limiter are reached on
\* the asset-to-asset route only.
C28_RoutesExclusive ==
    last = Idle =>
      /\ \A r \in SwapInCalls :
           LET out == SwapIn(r)
           IN  /\ out.route = IF r.token_in.amount >= r.limit
                              THEN ExpectedRoute(r.token_in.denom, r.token_out_denom)
                              ELSE "none"
               /\ RouteTaken(out, {SwapIn([r EXCEPT !.swap_fee = fee]) : fee \in SwapFees})
      /\ \A r \in SwapOutCalls :
           LET out == SwapOut(r)
           IN  /\ out.route = IF r.token_out.amount <= r.limit
                              THEN ExpectedRoute(r.token_in_denom, r.token_out.denom)
                              ELSE "none"
               /\ RouteTaken(out, {SwapOut([r EXCEPT !.swap_fee = fee]) : fee \in SwapFees})

\* an exact-in swap of alloyed shares for the alloyed denom took the
\* alloyed-in route, which refused the denom it was asked to release
C28_Witness ==
    /\ last # Idle
    /\ last.method = "swap_exact_amount_in"
    /\ last.route = "alloyed_in"
    /\ last.res.err = [error |-> "InvalidPoolAssetDenom", denom |-> AlloyedDenom]
    /\ shares > 0

\* C29: at fee 0, from the same storage and at the same block time, the
\* exact-in swap of x of pooled denom A for pooled denom B with min_out <= x
\* and the exact-out swap of x of B paid in A with max_in >= x both fail, or
\* both succeed, leave the same pool balances and the same limiter windows,
\* and send the same x of B to the sender.
C29_ExactInOutEquivalent ==
    last = Idle =>
      \A A \in PoolDenoms, B \in PoolDenoms, x \in Amounts, lo \in Limits, hi \in Limits :
        (lo <= x /\ x <= hi) =>
          LET in == SwapExactAmountIn(Storage, now, User, Coin(x, A), B, lo, DecZero)
              out == SwapExactAmountOut(Storage, now, User, A, hi, Coin(x, B), DecZero)
          IN  /\ in.res.ok = out.res.ok
              /\ in.st.pool = out.st.pool
              /\ in.st.limiters = out.st.limiters
              /\ in.st.shares = out.st.shares
              /\ in.res.messages = out.res.messages
              /\ in.res.ok =>
                   /\ in.res.messages = <<BankSend(User, Coin(x, B))>>
                   /\ in.res.data.token_out_amount = out.res.data.token_in_amount
              /\ ~in.res.ok => (in.st = Storage /\ out.st = Storage)

\* an exact-out asset swap was rejected by the limiter in a later block, on a
\* pool whose windows hold earlier weights
C29_Witness ==
    /\ last # Idle
    /\ last.method = "swap_exact_amount_out"
    /\ last.route = "asset"
    /\ last.res.err.error = "RateLimitExceeded"
    /\ now > 0
    /\ \A k \in TrackedKeys : limiters[k] # <<>>
    /\ \E r \in SwapInCalls :
         /\ r.swap_fee = DecZero
         /\ r.token_in.amount >= r.limit
         /\ SwapIn(r).res = last.res

\* C30: starting from an empty pool, after any sequence of swaps through the
\* alloyed-in, alloyed-out and asset-to-asset routes the outstanding alloyed
\* shares (minted minus burned) equal the total pooled balance; while shares
\* are outstanding, a share can be redeemed for a pooled asset.
C30_SharesBackedOneToOne ==
    /\ shares = TotalPoolValue(pool)
    /\ (last = Idle /\ shares > 0) =>
         \E B \in PoolDenoms :
           LET out == SwapExactAmountIn(Storage, now, User, Coin(1, AlloyedDenom), B, 1,
                                        DecZero)
           IN  /\ out.res.ok
               /\ out.st.shares = TotalPoolValue(out.st.pool)

\* shares were burned for an asset after an asset-to-asset swap had moved the
\* pool's weights, and shares are still outstanding
C30_Witness ==
    /\ last # Idle
    /\ last.route = "alloyed_in"
    /\ last.res.ok
    /\ last.res.messages[1].amount.amount > 0
    /\ \E k \in TrackedKeys : limiters[k] # <<>>
    /\ shares > 0
    /\ shares = TotalPoolValue(pool)

====
